---------------------------- MODULE Spec2Model ----------------------------
(***************************************************************************)
(* AtlasFS chunked transfer pipeline.                                      *)
(*                                                                         *)
(* Three services share a relational ledger (tables files and chunks), an  *)
(* object store (bucket atlasfs-chunks) and a message bus (file.events):   *)
(*   gateway   uploadFile    inserts the file row and forwards the stream  *)
(*   upload    handleUpload  splits the stream into chunks, puts each      *)
(*                           chunk, inserts its row, finalizes the file    *)
(*   download  downloadFile  looks the file up, lists its chunks and       *)
(*                           streams the objects back in index order       *)
(* Every request is a process of its own; the steps of a request are the   *)
(* calls it makes on the shared collaborators.                             *)
(***************************************************************************)
EXTENDS Integers, Sequences, FiniteSets, TLC

(* Size of one chunk; the source uses 4 MiB, scaled down here. *)
ChunkSize == 2
(* Longest input stream. *)
MaxLen == 3
(* time.Now().UnixNano() returns one of 1..MaxTime. The gateway and the upload
   service are separate processes, each reading the wall clock of its own host,
   so any call may return any of these values, equal to an earlier one or not. *)
MaxTime == 2

UploadReqs == {"u1", "u2"}
DownloadReqs == {"d1"}

(* files, chunkRows: the ledger tables. objects: the bucket. uploads, downloads:
   the requests, each with its handler's local variables, its answer and the
   history of what it did (putOk, putFailed, recordFailed, finalized, gets, out,
   events). inserted: history, which upload inserted which chunk row. *)
VARIABLES files, chunkRows, objects, uploads, downloads, inserted

vars == <<files, chunkRows, objects, uploads, downloads, inserted>>

-----------------------------------------------------------------------------
(* Pure helpers *)

Min(a, b) == IF a < b THEN a ELSE b

Timestamps == 1..MaxTime

(* The input streams: one per length, neighbouring bytes differ and so do the
   first bytes of streams of neighbouring lengths *)
StreamOfLen(n) == [i \in 1..n |-> (i + n) % 2]

Streams == {StreamOfLen(n) : n \in 0..MaxLen}

(* fmt.Sprintf("file_%d", time.Now().UnixNano()): one identifier per clock value *)
FileIDOf(t) == <<"file", t>>

FileIDs == {FileIDOf(t) : t \in Timestamps}

(* fmt.Sprintf("%s_chunk_%d", fileID, chunkIndex) *)
ChunkIDOf(fileID, chunkIndex) == <<fileID, "chunk", chunkIndex>>

(* hex.EncodeToString(sha256.Sum256(b)): a digest that tells any two byte strings apart *)
Sha256Hex(b) == <<"sha256", b>>

StatusUploading == "uploading"
StatusProcessing == "processing"
StatusCompleted == "completed"
StatusFailed == "failed"

(* Changed ObjectsAt: the store answers with any object it holds *)
ObjectsAt_AnyKey(key) == objects

(* GetObject(BucketName, key): the objects stored under key (none or one) *)
ObjectsAt(key) == {o \in objects : o.key = key}

(* SELECT ... FROM files WHERE file_id = id *)
FileRowsOf(id) == {f \in files : f.file_id = id}

(* SELECT ... FROM chunks WHERE file_id = id *)
ChunkRowsOf(id) == {c \in chunkRows : c.file_id = id}

RECURSIVE SortByIndex_Descending(_)
(* Changed SortByIndex: the rows come out by descending chunk_index *)
SortByIndex_Descending(rows) ==
    IF rows = {} THEN <<>>
    ELSE LET m == CHOOSE r \in rows : \A q \in rows : r.chunk_index >= q.chunk_index
         IN  <<m>> \o SortByIndex_Descending(rows \ {m})

RECURSIVE SortByIndex(_)
(* ORDER BY chunk_index, then sort.Slice by ChunkIndex *)
SortByIndex(rows) ==
    IF rows = {} THEN <<>>
    ELSE LET m == CHOOSE r \in rows : \A q \in rows : r.chunk_index <= q.chunk_index
         IN  <<m>> \o SortByIndex(rows \ {m})

-----------------------------------------------------------------------------
(* Initial state: empty ledger, empty bucket, no request in flight *)

IdleUpload ==
    [pc |-> "idle", stream |-> <<>>, pos |-> 0, fileID |-> <<>>,
     chunkIndex |-> 0, buffer |-> <<>>, chunks |-> <<>>, resp |-> 0,
     putOk |-> {}, putFailed |-> {}, recordFailed |-> {}, finalized |-> FALSE,
     events |-> <<>>]

IdleDownload ==
    [pc |-> "idle", fileID |-> <<>>, fileSize |-> 0, chunks |-> <<>>, next |-> 1,
     contentLength |-> -1, bytesWritten |-> 0, out |-> <<>>, gets |-> <<>>,
     status |-> 0, failed |-> FALSE, found |-> FALSE, dbError |-> FALSE,
     after |-> {}, events |-> <<>>]

Init ==
    /\ files = {}
    /\ chunkRows = {}
    /\ objects = {}
    /\ uploads = [u \in UploadReqs |-> IdleUpload]
    /\ downloads = [d \in DownloadReqs |-> IdleDownload]
    /\ inserted = {}

-----------------------------------------------------------------------------
(* Gateway: POST /api/v1/files *)

(* Changed InsertFileRow: an upsert, INSERT ... ON CONFLICT (file_id) DO UPDATE *)
InsertFileRow_Upsert(row, dbOk) ==
    IF dbOk THEN {f \in files : f.file_id # row.file_id} \cup {row} ELSE files

(* INSERT INTO files ...: fails on a database error or on a duplicate file_id *)
InsertFileRow(row, dbOk) ==
    IF dbOk /\ FileRowsOf(row.file_id) = {} THEN files \cup {row} ELSE files

(* uploadFile: the file row is inserted with status uploading (the error is only
   logged), then the stream is forwarded to the upload service *)
GatewayUploadFileAt(u, t) ==
    \E F \in Streams, dbOk \in BOOLEAN :
        /\ uploads[u].pc = "idle"
        /\ files' = InsertFileRow([file_id |-> FileIDOf(t), file_size |-> Len(F),
                                   chunk_count |-> 0, status |-> StatusUploading], dbOk)
        /\ uploads' = [uploads EXCEPT ![u].pc = "forwarded", ![u].stream = F]
        /\ UNCHANGED <<chunkRows, objects, downloads, inserted>>

(* uploadFile at any reading of the gateway's clock *)
GatewayUploadFile(u) == \E t \in Timestamps : GatewayUploadFileAt(u, t)

(* body := &bytes.Buffer{} after io.Copy(part, file): the multipart body the
   gateway has built in memory for the request it is about to send *)
GatewayBody(up) == IF up.pc = "forwarded" THEN up.stream ELSE <<>>

(* client.Do(req) fails: 503, the upload service never sees the request *)
GatewayForwardFails(u) ==
    /\ uploads[u].pc = "forwarded"
    /\ uploads' = [uploads EXCEPT ![u].pc = "done", ![u].resp = 503]
    /\ UNCHANGED <<files, chunkRows, objects, downloads, inserted>>

-----------------------------------------------------------------------------
(* Upload service: POST /upload *)

(* handleUpload, entry: no multipart field "file" gives 400 *)
HandleUploadNoFile(u) ==
    /\ uploads[u].pc = "idle"
    /\ uploads' = [uploads EXCEPT ![u].pc = "done", ![u].resp = 400]
    /\ UNCHANGED <<files, chunkRows, objects, downloads, inserted>>

(* handleUpload, entry: the handler draws its own fileID from the clock; the
   stream is the one the gateway forwarded, or any stream for a direct request *)
HandleUploadBeginAt(u, t) ==
    \E F \in Streams :
        /\ \/ uploads[u].pc = "forwarded" /\ F = uploads[u].stream
           \/ uploads[u].pc = "idle"
        /\ uploads' = [uploads EXCEPT ![u].pc = "loop", ![u].stream = F, ![u].pos = 0,
                                      ![u].fileID = FileIDOf(t), ![u].chunkIndex = 0,
                                      ![u].chunks = <<>>]
        /\ UNCHANGED <<files, chunkRows, objects, downloads, inserted>>

(* handleUpload, entry, at any reading of the upload service's clock *)
HandleUploadBegin(u) == \E t \in Timestamps : HandleUploadBeginAt(u, t)

(* file.Read(buffer) with len(buffer) = ChunkSize when every read fills the
   buffer unless the stream ends first (a multipart.File held in memory) *)
ReadSizes(remaining) == IF remaining = 0 THEN {} ELSE {Min(ChunkSize, remaining)}

(* file.Read(buffer) as io.Reader allows it: one Read call returns any
   0 < n <= len(buffer) of the bytes that remain (the handler calls Read once
   per chunk, not io.ReadFull) *)
ShortReadSizes(remaining) == 1..Min(ChunkSize, remaining)

(* models.Chunk{...} for buffer[:n] at the current chunkIndex *)
ChunkOf(up, buffer) ==
    [chunk_id |-> ChunkIDOf(up.fileID, up.chunkIndex), file_id |-> up.fileID,
     chunk_index |-> up.chunkIndex, chunk_size |-> Len(buffer),
     checksum |-> Sha256Hex(buffer)]

(* file.Read fails with an error other than io.EOF: 500 *)
ReadFails(u) ==
    /\ uploads[u].pc = "loop"
    /\ uploads' = [uploads EXCEPT ![u].pc = "done", ![u].resp = 500]
    /\ UNCHANGED <<files, chunkRows, objects, downloads, inserted>>

(* Changed PutSucceeded: the next read and put start before the chunk's row *)
PutSucceeded_Pipelined(read, buffer) ==
    [read EXCEPT !.pc = "loop",
                 !.putOk = @ \cup {read.chunkIndex},
                 !.chunkIndex = read.chunkIndex + 1,
                 !.chunks = Append(read.chunks, ChunkOf(read, buffer))]

(* the put succeeded: the chunk is appended to chunks and goes on to its row *)
PutSucceeded(read, buffer) ==
    [read EXCEPT !.pc = "record",
                 !.putOk = @ \cup {read.chunkIndex},
                 !.chunks = Append(read.chunks, ChunkOf(read, buffer))]

(* Changed PutFailed: the return is missing, the loop body goes on *)
PutFailed_NoReturn(read, buffer) ==
    [read EXCEPT !.pc = "record",
                 !.putFailed = @ \cup {read.chunkIndex},
                 !.chunks = Append(read.chunks, ChunkOf(read, buffer))]

(* the put failed: 500 "Failed to store chunk" and return *)
PutFailed(read, buffer) ==
    [read EXCEPT !.pc = "done", !.resp = 500,
                 !.putFailed = @ \cup {read.chunkIndex}]

(* buffer[:n] is hashed and put under chunkID (PutObject overwrites the key);
   a failed put ends the request *)
PutChunk(u, n) ==
    LET up == uploads[u]
        key == ChunkIDOf(up.fileID, up.chunkIndex)
        buffer == SubSeq(up.stream, up.pos + 1, up.pos + n)
        read == [up EXCEPT !.pos = up.pos + n, !.buffer = buffer]
    IN  /\ \/ /\ objects' = {o \in objects : o.key # key}
                                \cup {[key |-> key, bytes |-> buffer]}
               /\ uploads' = [uploads EXCEPT ![u] = PutSucceeded(read, buffer)]
            \/ /\ objects' = objects
               /\ uploads' = [uploads EXCEPT ![u] = PutFailed(read, buffer)]
        /\ UNCHANGED <<files, chunkRows, downloads, inserted>>

(* one pass through the first half of the loop body: n > 0 bytes are read,
   hashed and put; every read fills the buffer *)
StoreChunk(u) ==
    /\ uploads[u].pc = "loop"
    /\ \E n \in ReadSizes(Len(uploads[u].stream) - uploads[u].pos) : PutChunk(u, n)

(* the same pass when the read may return fewer bytes than the buffer holds *)
StoreChunkShortRead(u) ==
    /\ uploads[u].pc = "loop"
    /\ \E n \in ShortReadSizes(Len(uploads[u].stream) - uploads[u].pos) : PutChunk(u, n)

(* Changed CanInsertChunk: chunk_id is not a primary key *)
CanInsertChunk_NoPrimaryKey(row, dbOk) == dbOk /\ FileRowsOf(row.file_id) # {}

(* INSERT INTO chunks ...: fails on a database error, on a duplicate chunk_id
   (primary key) and when no file row has the file_id (foreign key) *)
CanInsertChunk(row, dbOk) ==
    /\ dbOk
    /\ FileRowsOf(row.file_id) # {}
    /\ \A c \in chunkRows : c.chunk_id # row.chunk_id

(* Changed Publish: a failed write is followed by a second write of the message *)
Publish_RetryOnFailure(events, event, ok) ==
    IF ok THEN Append(events, event) ELSE Append(Append(events, event), event)

(* kafkaWriter.WriteMessages(...): the message is handed to the writer once and
   the error it returns is dropped; events is the list of messages a request
   handed over *)
Publish(events, event, ok) == Append(events, event)

(* events.NewEvent(events.FileChunkCreated, ...) with Key chunkID *)
ChunkCreated(row) == [type |-> "file.chunk.created", key |-> row.chunk_id]

(* the second half of the loop body for given outcomes of the INSERT and of the
   publish: the chunk row is inserted (a failure is only logged),
   file.chunk.created is published, chunkIndex++ *)
RecordChunkResult(u, dbOk, ok) ==
    LET up == uploads[u]
        row == up.chunks[Len(up.chunks)]
        published == [up EXCEPT
                        !.events = Publish(up.events, ChunkCreated(row), ok),
                        !.pc = "loop",
                        !.chunkIndex = up.chunkIndex + 1]
    IN  IF CanInsertChunk(row, dbOk)
        THEN [chunkRows |-> chunkRows \cup {row},
              inserted |-> inserted \cup {<<u, row.chunk_id>>},
              upload |-> published]
        ELSE [chunkRows |-> chunkRows,
              inserted |-> inserted,
              upload |-> [published EXCEPT !.recordFailed = @ \cup {row.chunk_index}]]

(* the second half of the loop body *)
RecordChunk(u) ==
    \E dbOk \in BOOLEAN, ok \in BOOLEAN :
        /\ uploads[u].pc = "record"
        /\ chunkRows' = RecordChunkResult(u, dbOk, ok).chunkRows
        /\ inserted' = RecordChunkResult(u, dbOk, ok).inserted
        /\ uploads' = [uploads EXCEPT ![u] = RecordChunkResult(u, dbOk, ok).upload]
        /\ UNCHANGED <<files, objects, downloads>>

(* the second half of the loop body taken one statement at a time: first the
   INSERT INTO chunks ... *)
InsertChunkRow(u) ==
    \E dbOk \in BOOLEAN :
        /\ uploads[u].pc = "record"
        /\ chunkRows' = RecordChunkResult(u, dbOk, TRUE).chunkRows
        /\ inserted' = RecordChunkResult(u, dbOk, TRUE).inserted
        /\ uploads' = [uploads EXCEPT
              ![u].recordFailed = RecordChunkResult(u, dbOk, TRUE).upload.recordFailed,
              ![u].pc = "publish"]
        /\ UNCHANGED <<files, objects, downloads>>

(* ... then the publish of file.chunk.created and chunkIndex++ *)
PublishChunkCreated(u) ==
    \E ok \in BOOLEAN :
        LET up == uploads[u]
        IN  /\ up.pc = "publish"
            /\ uploads' = [uploads EXCEPT
                  ![u].events = Publish(up.events, ChunkCreated(up.chunks[Len(up.chunks)]), ok),
                  ![u].pc = "loop",
                  ![u].chunkIndex = up.chunkIndex + 1]
            /\ UNCHANGED <<files, chunkRows, objects, downloads, inserted>>

(* Changed UpdateFileRow: the row is set to processing *)
UpdateFileRow_Processing(fileID, chunkCount, dbOk) ==
    IF dbOk
    THEN {IF f.file_id = fileID
          THEN [f EXCEPT !.chunk_count = chunkCount, !.status = StatusProcessing]
          ELSE f : f \in files}
    ELSE files

(* Changed UpdateFileRow: the UPDATE has no WHERE file_id = ... *)
UpdateFileRow_NoWhere(fileID, chunkCount, dbOk) ==
    IF dbOk
    THEN {[f EXCEPT !.chunk_count = chunkCount, !.status = StatusCompleted] : f \in files}
    ELSE files

(* UPDATE files SET chunk_count, status = 'completed' WHERE file_id = fileID *)
UpdateFileRow(fileID, chunkCount, dbOk) ==
    IF dbOk
    THEN {IF f.file_id = fileID
          THEN [f EXCEPT !.chunk_count = chunkCount, !.status = StatusCompleted]
          ELSE f : f \in files}
    ELSE files

(* the end of the handler for given outcomes of the UPDATE and of the publish:
   the file row is updated (a failure is only logged), file.upload.completed is
   published, the answer is 200 *)
FinalizeFileResult(u, dbOk, ok) ==
    LET up == uploads[u]
    IN  [files |-> UpdateFileRow(up.fileID, Len(up.chunks), dbOk),
         upload |-> [up EXCEPT
                       !.events = Publish(up.events, [type |-> "file.upload.completed",
                                                      key |-> up.fileID], ok),
                       !.finalized = dbOk /\ FileRowsOf(up.fileID) # {},
                       !.pc = "done", !.resp = 200]]

(* the read returns n = 0 and the loop ends *)
FinalizeFile(u) ==
    \E dbOk \in BOOLEAN, ok \in BOOLEAN :
        /\ uploads[u].pc = "loop"
        /\ uploads[u].pos = Len(uploads[u].stream)
        /\ files' = FinalizeFileResult(u, dbOk, ok).files
        /\ uploads' = [uploads EXCEPT ![u] = FinalizeFileResult(u, dbOk, ok).upload]
        /\ UNCHANGED <<chunkRows, objects, downloads, inserted>>

(* getUploadStatus, GET /status/:id: 404 when no file row has the id, else 200
   with the row's status and chunk_count *)
GetUploadStatus(id) ==
    IF FileRowsOf(id) = {}
    THEN [code |-> 404, status |-> "", chunk_count |-> 0]
    ELSE LET f == CHOOSE f \in FileRowsOf(id) : TRUE
         IN  [code |-> 200, status |-> f.status, chunk_count |-> f.chunk_count]

-----------------------------------------------------------------------------
(* Download service: GET /download/:id *)

(* Changed CompletedRowsOf: the status filter is missing *)
CompletedRowsOf_AnyStatus(id) == FileRowsOf(id)

(* SELECT file_name, file_size, chunk_count FROM files
   WHERE file_id = id AND status = 'completed' *)
CompletedRowsOf(id) == {f \in FileRowsOf(id) : f.status = StatusCompleted}

(* downloadFile, the file query: sql.ErrNoRows gives 404, another error 500 *)
DownloadLookup(d) ==
    \E id \in FileIDs, dbOk \in BOOLEAN :
        LET dl == downloads[d]
            start == [dl EXCEPT !.fileID = id, !.dbError = ~dbOk,
                         !.found = \E f \in files : /\ f.file_id = id
                                                    /\ f.status = "completed"]
        IN  /\ dl.pc = "idle"
            /\ downloads' =
                 [downloads EXCEPT ![d] =
                    IF ~dbOk THEN [start EXCEPT !.pc = "done", !.status = 500]
                    ELSE IF CompletedRowsOf(id) = {}
                         THEN [start EXCEPT !.pc = "done", !.status = 404]
                         ELSE [start EXCEPT !.pc = "list",
                                 !.after = {u \in UploadReqs : uploads[u].resp = 200},
                                 !.fileSize = (CHOOSE f \in CompletedRowsOf(id) : TRUE).file_size]]
            /\ UNCHANGED <<files, chunkRows, objects, uploads, inserted>>

(* ChunkInfo{ChunkID, ChunkIndex, ChunkSize, Checksum} scanned from a row *)
ChunkInfoOf(c) ==
    [chunk_id |-> c.chunk_id, chunk_index |-> c.chunk_index,
     chunk_size |-> c.chunk_size, checksum |-> c.checksum]

(* downloadFile, the chunk query: an error gives 500, no chunk 404; otherwise the
   list is sorted and the headers are set, Content-Length = file_size *)
DownloadListChunks(d) ==
    \E dbOk \in BOOLEAN :
        LET dl == downloads[d]
            list == SortByIndex({ChunkInfoOf(c) : c \in ChunkRowsOf(dl.fileID)})
        IN  /\ dl.pc = "list"
            /\ downloads' =
                 [downloads EXCEPT ![d] =
                    IF ~dbOk THEN [dl EXCEPT !.pc = "done", !.status = 500, !.dbError = TRUE]
                    ELSE IF Len(list) = 0
                         THEN [dl EXCEPT !.pc = "done", !.status = 404]
                         ELSE [dl EXCEPT !.pc = "stream", !.chunks = list, !.next = 1,
                                         !.contentLength = dl.fileSize]]
            /\ UNCHANGED <<files, chunkRows, objects, uploads, inserted>>

(* The response writer accepts a write only up to the declared Content-Length:
   how many bytes of a chunk of len bytes can still be emitted *)
Room(dl, len) == Min(len, dl.contentLength - Len(dl.out))

(* Changed FetchFailed: the handler fetches the same chunk again instead of returning *)
FetchFailed_Retry(got, emitted) ==
    [got EXCEPT !.out = got.out \o emitted, !.failed = TRUE]

(* Changed FetchFailed: the loop goes on with the next chunk instead of returning *)
FetchFailed_Continue(got, emitted) ==
    [got EXCEPT !.out = got.out \o emitted, !.failed = TRUE, !.next = got.next + 1]

(* GetObject or io.Copy failed: the error is logged and the handler returns; the
   headers and status 200 go out with whatever io.Copy had written *)
FetchFailed(got, emitted) ==
    [got EXCEPT !.out = got.out \o emitted, !.pc = "done", !.status = 200,
                !.failed = TRUE]

(* one iteration of the streaming loop: GetObject, then io.Copy of the object to
   the client; a copy that fails has written a proper prefix of the object *)
DownloadChunk(d) ==
    LET dl == downloads[d]
        chunk == dl.chunks[dl.next]
        got == [dl EXCEPT !.gets = Append(dl.gets, chunk.chunk_id)]
    IN  /\ dl.pc = "stream"
        /\ dl.next <= Len(dl.chunks)
        /\ \/ downloads' = [downloads EXCEPT ![d] = FetchFailed(got, <<>>)]
           \/ \E o \in ObjectsAt(chunk.chunk_id) :
                 /\ Room(dl, Len(o.bytes)) = Len(o.bytes)
                 /\ downloads' = [downloads EXCEPT ![d] =
                                    [got EXCEPT !.out = dl.out \o o.bytes,
                                                !.bytesWritten = dl.bytesWritten + Len(o.bytes),
                                                !.next = dl.next + 1]]
           \/ \E o \in ObjectsAt(chunk.chunk_id) :
                 \E k \in 0..Room(dl, Len(o.bytes)) :
                    /\ k < Len(o.bytes)
                    /\ downloads' = [downloads EXCEPT ![d] =
                                       FetchFailed(got, SubSeq(o.bytes, 1, k))]
        /\ UNCHANGED <<files, chunkRows, objects, uploads, inserted>>

(* after the loop, for a given outcome of the publish: file.download.completed
   with bytes_sent = bytesWritten *)
DownloadPublishResult(d, ok) ==
    LET dl == downloads[d]
    IN  [dl EXCEPT
           !.events = Publish(dl.events, [type |-> "file.download.completed",
                            key |-> dl.fileID, bytes_sent |-> dl.bytesWritten], ok),
           !.pc = "done", !.status = 200]

(* after the loop: the event is published and the handler returns *)
DownloadPublish(d) ==
    \E ok \in BOOLEAN :
        /\ downloads[d].pc = "stream"
        /\ downloads[d].next > Len(downloads[d].chunks)
        /\ downloads' = [downloads EXCEPT ![d] = DownloadPublishResult(d, ok)]
        /\ UNCHANGED <<files, chunkRows, objects, uploads, inserted>>

-----------------------------------------------------------------------------

Next ==
    \/ \E u \in UploadReqs :
          \/ GatewayUploadFile(u)
          \/ GatewayForwardFails(u)
          \/ HandleUploadNoFile(u)
          \/ HandleUploadBegin(u)
          \/ ReadFails(u)
          \/ StoreChunk(u)
          \/ RecordChunk(u)
          \/ FinalizeFile(u)
    \/ \E d \in DownloadReqs :
          \/ DownloadLookup(d)
          \/ DownloadListChunks(d)
          \/ DownloadChunk(d)
          \/ DownloadPublish(d)

Spec == Init /\ [][Next]_vars

(* One upload request whose reads of the stream may be short *)
ShortReadReqs == {"u1"}

NextShortReads ==
    \E u \in ShortReadReqs :
        \/ GatewayUploadFile(u)
        \/ HandleUploadBegin(u)
        \/ ReadFails(u)
        \/ StoreChunkShortRead(u)
        \/ RecordChunk(u)
        \/ FinalizeFile(u)

SpecShortReads == Init /\ [][NextShortReads]_vars

(* The upload requests with the loop body taken one statement at a time *)
NextSteps ==
    \E u \in UploadReqs :
        \/ GatewayUploadFile(u)
        \/ HandleUploadBegin(u)
        \/ ReadFails(u)
        \/ StoreChunk(u)
        \/ InsertChunkRow(u)
        \/ PublishChunkCreated(u)
        \/ FinalizeFile(u)

SpecSteps == Init /\ [][NextSteps]_vars

(* Two download requests that start after the upload has stopped: no upload
   step is taken once a download has begun *)
DownloadTwiceReqs == {"d1", "d2"}
DownloadTwiceUploads == {"u1"}

InitDownloadTwice ==
    /\ files = {}
    /\ chunkRows = {}
    /\ objects = {}
    /\ uploads = [u \in UploadReqs |-> IdleUpload]
    /\ downloads = [d \in DownloadTwiceReqs |-> IdleDownload]
    /\ inserted = {}

(* no download request has begun *)
NoDownloadYet == \A d \in DownloadTwiceReqs : downloads[d].pc = "idle"

NextDownloadTwice ==
    \/ \E u \in DownloadTwiceUploads :
          \/ NoDownloadYet /\ GatewayUploadFile(u)
          \/ NoDownloadYet /\ HandleUploadBegin(u)
          \/ NoDownloadYet /\ ReadFails(u)
          \/ NoDownloadYet /\ StoreChunk(u)
          \/ NoDownloadYet /\ RecordChunk(u)
          \/ NoDownloadYet /\ FinalizeFile(u)
    \/ \E d \in DownloadTwiceReqs :
          \/ DownloadLookup(d)
          \/ DownloadListChunks(d)
          \/ DownloadChunk(d)
          \/ DownloadPublish(d)

SpecDownloadTwice == InitDownloadTwice /\ [][NextDownloadTwice]_vars

(* Changed ChunkRowsAfterDelete: chunks.file_id has no ON DELETE CASCADE *)
ChunkRowsAfterDelete_NoCascade(id) == chunkRows

(* file_id ... REFERENCES files(file_id) ON DELETE CASCADE: the chunk rows left
   when the file row id is deleted *)
ChunkRowsAfterDelete(id) == {c \in chunkRows : c.file_id # id}

(* DELETE FROM files WHERE file_id = id, issued at the database (no service of
   the repository issues it: the gateway's deleteFile only deletes the Redis
   key upload:<id>); the object store is not touched *)
DeleteFileRow(id) ==
    /\ FileRowsOf(id) # {}
    /\ files' = {f \in files : f.file_id # id}
    /\ chunkRows' = ChunkRowsAfterDelete(id)
    /\ UNCHANGED <<objects, uploads, downloads, inserted>>

(* One upload request and one download request together with explicit
   deletions of file rows *)
DeleteUploads == {"u1"}

NextDelete ==
    \/ \E u \in DeleteUploads :
          \/ GatewayUploadFile(u)
          \/ HandleUploadBegin(u)
          \/ ReadFails(u)
          \/ StoreChunk(u)
          \/ RecordChunk(u)
          \/ FinalizeFile(u)
    \/ \E d \in DownloadReqs :
          \/ DownloadLookup(d)
          \/ DownloadListChunks(d)
          \/ DownloadChunk(d)
          \/ DownloadPublish(d)
    \/ \E id \in FileIDs : DeleteFileRow(id)

SpecDelete == Init /\ [][NextDelete]_vars

(* Two upload requests whose file identifiers are distinct: the clock readings
   of u1 (at the gateway and in the upload handler) are the odd timestamps,
   those of u2 the even ones *)
ClockOf(u) == {t \in Timestamps : (t % 2 = 1) <=> (u = "u1")}

NextDisjoint ==
    \/ \E u \in UploadReqs :
          \/ \E t \in ClockOf(u) : GatewayUploadFileAt(u, t)
          \/ \E t \in ClockOf(u) : HandleUploadBeginAt(u, t)
          \/ ReadFails(u)
          \/ StoreChunk(u)
          \/ RecordChunk(u)
          \/ FinalizeFile(u)
    \/ \E d \in DownloadReqs :
          \/ DownloadLookup(d)
          \/ DownloadListChunks(d)
          \/ DownloadChunk(d)
          \/ DownloadPublish(d)

SpecDisjoint == Init /\ [][NextDisjoint]_vars

(* the steps of handleUpload after its entry: the goroutine of a request keeps
   running, and every call it makes returns *)
UploadRun(u) == ReadFails(u) \/ StoreChunk(u) \/ RecordChunk(u) \/ FinalizeFile(u)

(* the steps of downloadFile after the lookup of the file row *)
DownloadRun(d) == DownloadListChunks(d) \/ DownloadChunk(d) \/ DownloadPublish(d)

(* a handler that can take a step takes one; whether a request arrives at all
   is up to the client *)
Fairness ==
    /\ \A u \in UploadReqs : WF_vars(UploadRun(u))
    /\ \A d \in DownloadReqs : WF_vars(DownloadRun(d))

SpecFair == Init /\ [][NextDisjoint]_vars /\ Fairness

-----------------------------------------------------------------------------
(* The other read requests: GET /stream/:id, GET /info/:id of the download
   service and GET /status/:id of the upload service *)

(* streamFile: 501 for a request with a Range header, else downloadFile *)
StreamFile(d) ==
    \/ /\ downloads[d].pc = "idle"
       /\ downloads' = [downloads EXCEPT ![d].pc = "done", ![d].status = 501]
       /\ UNCHANGED <<files, chunkRows, objects, uploads, inserted>>
    \/ DownloadLookup(d)

(* Changed FilesAfterSelect: the query marks the row it read *)
FilesAfterSelect_Touch(id) ==
    {IF f.file_id = id THEN [f EXCEPT !.status = StatusProcessing] ELSE f : f \in files}

(* SELECT ... FROM files WHERE file_id = id: the file rows after the query *)
FilesAfterSelect(id) == files

(* getFileInfo: any error of the query, no row included, gives 404 *)
GetFileInfo(d) ==
    \E id \in FileIDs, dbOk \in BOOLEAN :
        /\ downloads[d].pc = "idle"
        /\ files' = FilesAfterSelect(id)
        /\ downloads' = [downloads EXCEPT
                ![d].pc = "done", ![d].fileID = id, ![d].dbError = ~dbOk,
                ![d].found = FileRowsOf(id) # {},
                ![d].status = IF dbOk /\ FileRowsOf(id) # {} THEN 200 ELSE 404]
        /\ UNCHANGED <<chunkRows, objects, uploads, inserted>>

(* getUploadStatus as a request: 503 when the service has no database handle
   (sql.Open had failed), 404 on any error of the query, no row included *)
GetUploadStatusRequest(d) ==
    \E id \in FileIDs, db \in {"ok", "error", "nil"} :
        /\ downloads[d].pc = "idle"
        /\ files' = IF db = "nil" THEN files ELSE FilesAfterSelect(id)
        /\ downloads' = [downloads EXCEPT
                ![d].pc = "done", ![d].fileID = id, ![d].dbError = (db # "ok"),
                ![d].found = FileRowsOf(id) # {},
                ![d].status = IF db = "nil" THEN 503
                              ELSE IF db = "ok" THEN GetUploadStatus(id).code ELSE 404]
        /\ UNCHANGED <<chunkRows, objects, uploads, inserted>>

(* One upload, and two read requests of any of the four kinds, interleaved *)
NextReads ==
    \/ \E u \in DownloadTwiceUploads :
          \/ GatewayUploadFile(u)
          \/ HandleUploadBegin(u)
          \/ ReadFails(u)
          \/ StoreChunk(u)
          \/ RecordChunk(u)
          \/ FinalizeFile(u)
    \/ \E d \in DownloadTwiceReqs :
          \/ DownloadLookup(d)
          \/ DownloadListChunks(d)
          \/ DownloadChunk(d)
          \/ DownloadPublish(d)
          \/ StreamFile(d)
          \/ GetFileInfo(d)
          \/ GetUploadStatusRequest(d)

SpecReads == InitDownloadTwice /\ [][NextReads]_vars

-----------------------------------------------------------------------------
(* Properties *)

RECURSIVE SumSizes(_)
(* the sum of chunk_size over a set of chunk rows *)
SumSizes(rows) ==
    IF rows = {} THEN 0
    ELSE LET r == CHOOSE x \in rows : TRUE
         IN  r.chunk_size + SumSizes(rows \ {r})

(* a download that ran to the end of its chunk list without a failure *)
DownloadCompleted(dl) == dl.pc = "done" /\ dl.status = 200 /\ ~dl.failed

(* C1: round trip. A download of file X that started after an upload of stream
   F had answered 200 with file_id X, and that completed without a fetch
   failure, emitted exactly F. *)
C1_RoundTrip ==
    \A d \in DownloadReqs : \A u \in downloads[d].after :
        (DownloadCompleted(downloads[d]) /\ uploads[u].fileID = downloads[d].fileID)
            => downloads[d].out = uploads[u].stream

(* C2: an upload in which some recordChunk failed after its put succeeded never
   finalizes its file as completed. *)
C2_NoCompletedAfterRecordFailure ==
    \A u \in UploadReqs : uploads[u].finalized => uploads[u].recordFailed = {}

(* C3: integrity. For every chunk row, the recorded checksum is the hash of the
   bytes stored in the object store under the row's chunk id. *)
C3_Integrity ==
    \A c \in chunkRows :
        \E o \in ObjectsAt(c.chunk_id) : c.checksum = Sha256Hex(o.bytes)

(* C4: for every finalized file the chunk_index values of its chunk rows are
   exactly 0..chunk_count-1. *)
C4_ContiguousIndices ==
    \A f \in files :
        f.status = StatusCompleted =>
            /\ {c.chunk_index : c \in ChunkRowsOf(f.file_id)} = 0..(f.chunk_count - 1)
            /\ Cardinality(ChunkRowsOf(f.file_id)) = f.chunk_count

(* C5: for every completed file the chunk sizes of its rows add up to the
   file_size declared when the row was created. *)
C5_SizeSum ==
    \A f \in files :
        f.status = StatusCompleted => SumSizes(ChunkRowsOf(f.file_id)) = f.file_size

(* C6: write order. Every chunk row was inserted by an upload whose put of that
   chunk id had succeeded, and an upload whose put of chunk k failed inserted
   no row for chunk k. *)
C6_WriteOrder ==
    /\ \A c \in chunkRows :
          \E u \in UploadReqs :
             /\ <<u, c.chunk_id>> \in inserted
             /\ c.file_id = uploads[u].fileID
             /\ c.chunk_index \in uploads[u].putOk
    /\ \A u \in UploadReqs : \A k \in uploads[u].putFailed :
          <<u, ChunkIDOf(uploads[u].fileID, k)>> \notin inserted

(* C6 witness: one upload recorded chunk 0 and then failed to put chunk 1 *)
C6_Witness ==
    \E u \in UploadReqs :
        /\ 1 \in uploads[u].putFailed
        /\ <<u, ChunkIDOf(uploads[u].fileID, 0)>> \in inserted

(* C7: file status only moves forward. In every step every file row stays, and
   if its status changes it changes from uploading to completed or failed. *)
C7_StatusForward ==
    [][\A f \in files :
          \E g \in files' :
             /\ g.file_id = f.file_id
             /\ g.status # f.status =>
                   /\ f.status = StatusUploading
                   /\ g.status \in {StatusCompleted, StatusFailed}]_vars

(* C7 witness: two uploads finalized the same file row, one after the other *)
C7_Witness ==
    \E u, v \in UploadReqs :
        /\ u # v
        /\ uploads[u].finalized /\ uploads[v].finalized
        /\ uploads[u].fileID = uploads[v].fileID

(* C8 as claimed: a download of an id with no completed file row answers 404
   and issues no get and emits no byte. *)
C8_NotFoundOnly ==
    \A d \in DownloadReqs :
        (downloads[d].pc # "idle" /\ ~downloads[d].found) =>
            /\ downloads[d].status = 404
            /\ downloads[d].gets = <<>>
            /\ downloads[d].out = <<>>

(* C8 amended: a download of an id with no completed file row ends at the file
   query, with 404, or with 500 when the query itself failed; it issues no get
   and emits no byte. *)
C8_NotFoundOrDbError ==
    \A d \in DownloadReqs :
        (downloads[d].pc # "idle" /\ ~downloads[d].found) =>
            /\ downloads[d].pc = "done"
            /\ downloads[d].status = IF downloads[d].dbError THEN 500 ELSE 404
            /\ downloads[d].gets = <<>>
            /\ downloads[d].out = <<>>

(* C8 witness: a file still uploading was asked for and the answer was 404 *)
C8_Witness ==
    \E d \in DownloadReqs :
        /\ downloads[d].status = 404
        /\ ~downloads[d].found
        /\ \E f \in FileRowsOf(downloads[d].fileID) : f.status = StatusUploading

(* C9: after the first fetch or copy failure of a download no further get is
   issued and no further byte is emitted. *)
C9_AbortOnFirstFailure ==
    [][\A d \in DownloadReqs :
          downloads[d].failed =>
             /\ downloads'[d].gets = downloads[d].gets
             /\ downloads'[d].out = downloads[d].out]_vars

(* C9 witness: a download failed with listed chunks still unfetched *)
C9_Witness ==
    \E d \in DownloadReqs :
        /\ downloads[d].failed
        /\ Len(downloads[d].gets) < Len(downloads[d].chunks)

(* C10: a download that aborted on a failed fetch ended with status 500 or with
   fewer body bytes than the Content-Length it declared. *)
C10_AbortDetectable ==
    \A d \in DownloadReqs :
        (downloads[d].pc = "done" /\ downloads[d].failed) =>
            \/ downloads[d].status = 500
            \/ Len(downloads[d].out) < downloads[d].contentLength

(* the chunk_index values of a download's listed chunks *)
ListedIndices(dl) == {dl.chunks[i].chunk_index : i \in 1..Len(dl.chunks)}

(* C11: a download whose listed chunk rows do not have the indices 0..n-1 ends
   with an error status and has issued no get and emitted no byte. *)
C11_GapIsFatal ==
    \A d \in DownloadReqs :
        (/\ downloads[d].pc = "done"
         /\ downloads[d].chunks # <<>>
         /\ ListedIndices(downloads[d]) # 0..(Len(downloads[d].chunks) - 1))
            => /\ downloads[d].status >= 400
               /\ downloads[d].gets = <<>>
               /\ downloads[d].out = <<>>

(* ceil(s / c) *)
Ceil(s, c) == (s + c - 1) \div c

(* C12: an upload that answered 200 produced, and reports as chunk_count,
   ceil(s/C) chunks for its stream of size s, whatever sizes the reads had. *)
C12_ChunkCountIsCeil ==
    \A u \in UploadReqs :
        (uploads[u].pc = "done" /\ uploads[u].resp = 200)
            => Len(uploads[u].chunks) = Ceil(Len(uploads[u].stream), ChunkSize)

(* C13: the chunks of an upload that answered 200 have the indices 0, 1, 2, ...
   in order, every chunk except the last has size ChunkSize, and the last has a
   size in 1..ChunkSize. *)
C13_ChunkShape ==
    \A u \in UploadReqs :
        LET cs == uploads[u].chunks
        IN  (uploads[u].pc = "done" /\ uploads[u].resp = 200) =>
                \A i \in 1..Len(cs) :
                    /\ cs[i].chunk_index = i - 1
                    /\ i < Len(cs) => cs[i].chunk_size = ChunkSize
                    /\ cs[i].chunk_size \in 1..ChunkSize

(* C14: when an upload is about to record its first chunk row, a file row with
   the file id of its chunk ids exists with status uploading. *)
C14_FileRowBeforeChunkRows ==
    \A u \in UploadReqs :
        (uploads[u].pc = "record" /\ uploads[u].chunkIndex = 0) =>
            \E f \in FileRowsOf(uploads[u].fileID) : f.status = StatusUploading

(* C15: in the step in which an upload answers 200 with file id X and
   chunk_count n, the ledger holds a file row X with status completed and
   chunk_count n, and exactly n chunk rows of X. *)
C15_ResponseMatchesLedger ==
    [][\A u \in UploadReqs :
          (uploads[u].pc # "done" /\ uploads'[u].pc = "done" /\ uploads'[u].resp = 200) =>
             /\ \E f \in files' :
                   /\ f.file_id = uploads'[u].fileID
                   /\ f.status = StatusCompleted
                   /\ f.chunk_count = Len(uploads'[u].chunks)
             /\ Cardinality({c \in chunkRows' : c.file_id = uploads'[u].fileID})
                   = Len(uploads'[u].chunks)]_vars

(* C16: zero-length policy. After an upload of an empty stream answered 200 for
   file id X, a download of X that met no database error agrees with it: GET
   /status says completed with zero chunks and the download answers 200 with
   an empty body. *)
C16_ZeroLengthConsistent ==
    \A d \in DownloadReqs : \A u \in downloads[d].after :
        (/\ downloads[d].pc = "done"
         /\ ~downloads[d].dbError
         /\ uploads[u].fileID = downloads[d].fileID
         /\ uploads[u].stream = <<>>)
            => /\ GetUploadStatus(downloads[d].fileID) =
                     [code |-> 200, status |-> StatusCompleted, chunk_count |-> 0]
               /\ downloads[d].status = 200
               /\ downloads[d].out = <<>>

(* C17: an upload that ended on a failed put did not finalize its file, and the
   chunk rows it inserted are exactly the chunks it had put into the object
   store. *)
C17_PutFailureLeavesRowsEqualObjects ==
    \A u \in UploadReqs :
        (uploads[u].pc = "done" /\ uploads[u].putFailed # {}) =>
            /\ ~uploads[u].finalized
            /\ \A k \in uploads[u].putOk :
                  <<u, ChunkIDOf(uploads[u].fileID, k)>> \in inserted

(* C18: an upload answers 200 only when none of its puts and none of its chunk
   row inserts failed. *)
C18_OkOnlyWithoutFailure ==
    \A u \in UploadReqs :
        (uploads[u].pc = "done" /\ uploads[u].resp = 200) =>
            /\ uploads[u].putFailed = {}
            /\ uploads[u].recordFailed = {}

(* C19: event delivery does not influence the data path. Wherever a handler is
   about to publish, the step with a failed publish leaves the same ledger
   rows, the same request state and the same response as the step with a
   successful publish, for every outcome of the ledger write, and the message
   is handed to the writer exactly once either way. *)
C19_PublishOutcomeIrrelevant ==
    /\ \A u \in UploadReqs :
          uploads[u].pc = "record" =>
             \A dbOk \in BOOLEAN :
                /\ RecordChunkResult(u, dbOk, FALSE) = RecordChunkResult(u, dbOk, TRUE)
                /\ Len(RecordChunkResult(u, dbOk, FALSE).upload.events)
                      = Len(uploads[u].events) + 1
    /\ \A u \in UploadReqs :
          (uploads[u].pc = "loop" /\ uploads[u].pos = Len(uploads[u].stream)) =>
             \A dbOk \in BOOLEAN :
                /\ FinalizeFileResult(u, dbOk, FALSE) = FinalizeFileResult(u, dbOk, TRUE)
                /\ Len(FinalizeFileResult(u, dbOk, FALSE).upload.events)
                      = Len(uploads[u].events) + 1
    /\ \A d \in DownloadReqs :
          (downloads[d].pc = "stream" /\ downloads[d].next > Len(downloads[d].chunks)) =>
             /\ DownloadPublishResult(d, FALSE) = DownloadPublishResult(d, TRUE)
             /\ Len(DownloadPublishResult(d, FALSE).events) = Len(downloads[d].events) + 1

(* C19 witness: an upload published one event per chunk and one at the end, and
   a download of its file published its event *)
C19_Witness ==
    \E u \in UploadReqs, d \in DownloadReqs :
        /\ uploads[u].pc = "done" /\ uploads[u].resp = 200
        /\ Len(uploads[u].chunks) = 2
        /\ Len(uploads[u].events) = 3
        /\ downloads[d].pc = "done" /\ downloads[d].fileID = uploads[u].fileID
        /\ Len(downloads[d].events) = 1

(* the chunk indices an upload has tried to put, has tried to record, and the
   number of file.chunk.created events it has published *)
PutsOf(up) == up.putOk \cup up.putFailed
RecordsOf(u) ==
    {k \in uploads[u].putOk : <<u, ChunkIDOf(uploads[u].fileID, k)>> \in inserted}
        \cup uploads[u].recordFailed
PublishedOf(up) == Len(SelectSeq(up.events, LAMBDA e : e.type = "file.chunk.created"))

(* C20: within one upload the per-chunk steps are strictly ordered and never
   overlap. The chunk events are those of chunks 0, 1, ... in order; with m of
   them published, the chunks recorded are 0..m-1 or 0..m, every chunk recorded
   was put before, and the chunks put are 0..m-1 or 0..m: the put of chunk N+1
   comes only after chunk N was put, recorded and published. *)
C20_StepsInOrder ==
    \A u \in UploadReqs :
        LET up == uploads[u]
            created == SelectSeq(up.events, LAMBDA e : e.type = "file.chunk.created")
            m == PublishedOf(up)
        IN  /\ \A i \in 1..m : created[i].key = ChunkIDOf(up.fileID, i - 1)
            /\ RecordsOf(u) \in {0..(m - 1), 0..m}
            /\ RecordsOf(u) \subseteq up.putOk
            /\ PutsOf(up) \in {0..(m - 1), 0..m}

(* C20 witness: chunk 0 went through put, record and publish, chunk 1 is put
   and recorded and its event is not yet published *)
C20_Witness ==
    \E u \in UploadReqs :
        /\ uploads[u].pc = "publish"
        /\ uploads[u].chunkIndex = 1
        /\ PublishedOf(uploads[u]) = 1

(* C21: within one download the gets are issued for the listed chunks in
   strictly ascending chunk index order, one at a time: every get but the last
   was followed by the full copy of its object before the next get, and a get
   whose copy did not complete is the last one. *)
C21_GetsInIndexOrder ==
    \A d \in DownloadReqs :
        LET dl == downloads[d]
            n == Len(dl.gets)
        IN  /\ n <= Len(dl.chunks)
            /\ \A i \in 1..n : dl.gets[i] = dl.chunks[i].chunk_id
            /\ \A i \in 1..(n - 1) :
                  dl.chunks[i].chunk_index < dl.chunks[i + 1].chunk_index
            /\ \/ n = dl.next - 1
               \/ dl.failed /\ n = dl.next

(* C21 witness: a download fetched two chunks, one after the other, and ended
   without a failure *)
C21_Witness ==
    \E d \in DownloadReqs :
        /\ DownloadCompleted(downloads[d])
        /\ Len(downloads[d].gets) = 2
        /\ Len(downloads[d].out) = 3

(* C22: download idempotence. Two downloads of the same file, with no upload
   step between or during them, that both ran to the end without a fetch
   failure emitted the same bytes. *)
C22_DownloadIdempotent ==
    \A d \in DownloadTwiceReqs : \A e \in DownloadTwiceReqs :
        (/\ DownloadCompleted(downloads[d])
         /\ DownloadCompleted(downloads[e])
         /\ downloads[d].fileID = downloads[e].fileID)
            => downloads[d].out = downloads[e].out

(* C22 witness: two downloads of one file both completed with a body of three
   bytes *)
C22_Witness ==
    /\ DownloadCompleted(downloads["d1"])
    /\ DownloadCompleted(downloads["d2"])
    /\ downloads["d1"].fileID = downloads["d2"].fileID
    /\ Len(downloads["d1"].out) = 3
    /\ Len(downloads["d2"].out) = 3

(* the file bytes an upload request holds in memory: the gateway's body buffer
   and the upload handler's chunk buffer *)
HeldBytes(up) == Len(GatewayBody(up)) + Len(up.buffer)

(* C23: bounded memory. At every point of an upload request, gateway
   forwarding included, the file bytes held in memory are at most one chunk. *)
C23_BoundedMemory ==
    \A u \in UploadReqs : HeldBytes(uploads[u]) <= ChunkSize

(* C24: file identifiers are unique across uploads: no two upload requests that
   have begun use the same file id. *)
C24_UniqueFileIDs ==
    \A u \in UploadReqs : \A v \in UploadReqs :
        (u # v /\ uploads[u].fileID # <<>> /\ uploads[v].fileID # <<>>)
            => uploads[u].fileID # uploads[v].fileID

(* C25: abort without compensation. The step in which a put fails changes no
   object, no chunk row and no file row, publishes nothing and ends the request
   with 500; after it the request takes no further step, so it does not
   finalize the file and publishes no upload-completed event. *)
C25_AbortWithoutCompensation ==
    [][\A u \in UploadReqs :
          /\ uploads'[u].putFailed # uploads[u].putFailed =>
                /\ objects' = objects
                /\ chunkRows' = chunkRows
                /\ files' = files
                /\ uploads'[u].pc = "done"
                /\ uploads'[u].resp = 500
                /\ uploads'[u].events = uploads[u].events
                /\ ~uploads'[u].finalized
          /\ uploads[u].putFailed # {} => uploads'[u] = uploads[u]]_vars

(* C25 witness: the put of chunk 1 failed after chunk 0 had been put and
   recorded; the object and the row of chunk 0 are there and the file row is
   still uploading *)
C25_Witness ==
    \E u \in UploadReqs :
        /\ uploads[u].putFailed = {1}
        /\ ObjectsAt(ChunkIDOf(uploads[u].fileID, 0)) # {}
        /\ \E c \in ChunkRowsOf(uploads[u].fileID) : c.chunk_index = 0
        /\ \E f \in FileRowsOf(uploads[u].fileID) : f.status = StatusUploading

(* C26: existing ledger rows are never rewritten. In every step every chunk row
   stays as it is, at most one chunk row is added and its chunk_id is new; every
   file row keeps its file_id and file_size, at most one file row changes, and
   a file row that changes gets status completed and a chunk_count and nothing
   else. *)
C26_RowsNotRewritten ==
    [][/\ chunkRows \subseteq chunkRows'
       /\ Cardinality(chunkRows' \ chunkRows) <= 1
       /\ \A c \in chunkRows' \ chunkRows : \A e \in chunkRows : e.chunk_id # c.chunk_id
       /\ Cardinality(files \ files') <= 1
       /\ \A f \in files \ files' :
             \E g \in files' \ files :
                \E n \in 0..MaxLen :
                   g = [f EXCEPT !.chunk_count = n, !.status = StatusCompleted]
       /\ \A f \in files' : \A g \in files' : f.file_id = g.file_id => f = g]_vars

(* C26 witness: an insert of chunk 0 met the row another upload had inserted
   under the same chunk id and failed, and the file was finalized *)
C26_Witness ==
    \E u \in UploadReqs : \E v \in UploadReqs :
        /\ u # v
        /\ uploads[u].fileID = uploads[v].fileID
        /\ <<v, ChunkIDOf(uploads[v].fileID, 0)>> \in inserted
        /\ 0 \in uploads[u].recordFailed
        /\ uploads[u].finalized

(* C27: in every reachable state every file row has status uploading or
   completed; processing and failed are never written. *)
C27_OnlyUploadingOrCompleted ==
    \A f \in files : f.status \in {StatusUploading, StatusCompleted}

(* C27 witness: one file was finalized as completed, and the file of an upload
   that ended on a failed put is still uploading *)
C27_Witness ==
    /\ \E u \in UploadReqs :
          /\ uploads[u].putFailed # {}
          /\ \E f \in FileRowsOf(uploads[u].fileID) : f.status = StatusUploading
    /\ \E f \in files : f.status = StatusCompleted

(* the upload-completed event of an upload *)
UploadCompleted(up) == [type |-> "file.upload.completed", key |-> up.fileID]

(* C28: event order on upload. The events of an upload are the chunk-created
   events of its chunks 0, 1, ... in order, one per chunk, each published after
   the chunk was put and its row insert was tried; an upload that answered 200
   has published one for every chunk and then exactly one upload-completed;
   any other upload has published no upload-completed. *)
C28_UploadEventOrder ==
    \A u \in UploadReqs :
        LET up == uploads[u]
            n == Len(up.chunks)
            m == PublishedOf(up)
        IN  /\ m <= n
            /\ \A i \in 1..m :
                  /\ up.events[i] = ChunkCreated(up.chunks[i])
                  /\ (i - 1) \in up.putOk
                  /\ (i - 1) \in RecordsOf(u)
            /\ IF up.pc = "done" /\ up.resp = 200
               THEN /\ m = n
                    /\ Len(up.events) = n + 1
                    /\ up.events[n + 1] = UploadCompleted(up)
               ELSE Len(up.events) = m

(* C28 witness: one upload published two chunk-created events and then
   upload-completed, and another ended on a failed put after one chunk-created *)
C28_Witness ==
    \E u \in UploadReqs : \E v \in UploadReqs :
        /\ uploads[u].pc = "done" /\ uploads[u].resp = 200
        /\ Len(uploads[u].events) = 3
        /\ uploads[v].putFailed = {1}
        /\ Len(uploads[v].events) = 1

(* C29: a download publishes at most one download-completed event, only when
   it has fetched and fully emitted every listed chunk; a download that
   answered 404 or 500 or stopped at a failed fetch publishes none; bytes_sent
   is the number of body bytes emitted. *)
C29_DownloadCompletedEvent ==
    \A d \in DownloadReqs :
        LET dl == downloads[d]
        IN  /\ Len(dl.events) <= 1
            /\ dl.events # <<>> =>
                  /\ dl.pc = "done" /\ dl.status = 200 /\ ~dl.failed
                  /\ Len(dl.gets) = Len(dl.chunks)
                  /\ dl.next = Len(dl.chunks) + 1
                  /\ dl.events[1].type = "file.download.completed"
                  /\ dl.events[1].key = dl.fileID
                  /\ dl.events[1].bytes_sent = Len(dl.out)
            /\ (dl.status \in {404, 500} \/ dl.failed) => dl.events = <<>>

(* C29 witness: a download of two chunks published its event with
   bytes_sent = 3 *)
C29_Witness ==
    \E d \in DownloadReqs :
        /\ Len(downloads[d].events) = 1
        /\ downloads[d].events[1].bytes_sent = 3
        /\ Len(downloads[d].gets) = 2

(* C30: a download that completed without a fetch failure emitted exactly as
   many body bytes as the Content-Length it declared: its byte counter ended
   equal to the recorded file_size. *)
C30_BodyMatchesContentLength ==
    \A d \in DownloadReqs :
        DownloadCompleted(downloads[d]) =>
            /\ Len(downloads[d].out) = downloads[d].contentLength
            /\ downloads[d].bytesWritten = downloads[d].fileSize

(* C31: every chunk row's file_id refers to an existing file row in every
   state, a step that removes a file row removes its chunk rows with it, and
   no step of an upload or download request removes a file row or a chunk
   row. *)
C31_CascadeDelete ==
    [][/\ \A c \in chunkRows' : \E f \in files' : f.file_id = c.file_id
       /\ (uploads' # uploads \/ downloads' # downloads) =>
             /\ chunkRows \subseteq chunkRows'
             /\ \A f \in files : \E g \in files' : g.file_id = f.file_id]_vars

(* C31 witness: a chunk row an upload had inserted is gone together with its
   file row *)
C31_Witness ==
    \E u \in UploadReqs :
        /\ <<u, ChunkIDOf(uploads[u].fileID, 0)>> \in inserted
        /\ FileRowsOf(uploads[u].fileID) = {}
        /\ ChunkRowsOf(uploads[u].fileID) = {}

(* the bytes of chunk k of an upload whose reads fill the buffer *)
BytesOfChunk(up, k) ==
    SubSeq(up.stream, k * ChunkSize + 1, Min((k + 1) * ChunkSize, Len(up.stream)))

RECURSIVE ConcatChunks(_, _)
(* the bytes of the listed chunks of an upload, one after the other *)
ConcatChunks(up, list) ==
    IF list = <<>> THEN <<>>
    ELSE BytesOfChunk(up, Head(list).chunk_index) \o ConcatChunks(up, Tail(list))

(* the file identifiers request u can use *)
OwnIDs(u) == {FileIDOf(t) : t \in ClockOf(u)}

(* C32: concurrent requests do not interfere. With distinct file identifiers,
   in every interleaving the objects, chunk rows and file rows under the
   identifiers of an upload are determined by that upload alone (its stream
   and the outcomes of its own puts and ledger writes), and a download of its
   file that ran to the end emitted the bytes of the chunks it listed, whatever
   the other upload was doing. *)
C32_NoInterference ==
    \A u \in UploadReqs :
        LET up == uploads[u]
            recorded == {k \in up.putOk : <<u, ChunkIDOf(up.fileID, k)>> \in inserted}
        IN  /\ {o \in objects : o.key[1] \in OwnIDs(u)}
                  = {[key |-> ChunkIDOf(up.fileID, k), bytes |-> BytesOfChunk(up, k)] :
                        k \in up.putOk}
            /\ {c \in chunkRows : c.file_id \in OwnIDs(u)}
                  = {up.chunks[k + 1] : k \in recorded}
            /\ \A f \in files :
                  f.file_id \in OwnIDs(u) =>
                     LET fin == up.finalized /\ f.file_id = up.fileID
                     IN  f = [file_id |-> f.file_id, file_size |-> Len(up.stream),
                              chunk_count |-> IF fin THEN Len(up.chunks) ELSE 0,
                              status |-> IF fin THEN StatusCompleted ELSE StatusUploading]
            /\ \A d \in DownloadReqs :
                  (DownloadCompleted(downloads[d]) /\ downloads[d].fileID = up.fileID) =>
                     downloads[d].out = ConcatChunks(up, downloads[d].chunks)

(* C32 witness: a download of the file of u1 ran to the end and emitted a
   stream of two chunks, while u2, under another identifier, is in the middle
   of its loop with its first chunk recorded and its second chunk put *)
C32_Witness ==
    /\ DownloadCompleted(downloads["d1"])
    /\ downloads["d1"].fileID = uploads["u1"].fileID
    /\ Len(downloads["d1"].out) > ChunkSize
    /\ uploads["u2"].pc = "record" /\ uploads["u2"].chunkIndex = 1
    /\ <<"u2", ChunkIDOf(uploads["u2"].fileID, 0)>> \in inserted
    /\ \E o \in objects : o.key = ChunkIDOf(uploads["u2"].fileID, 1)

(* the passes an upload has made through the loop body with n > 0 *)
Iterations(up) == Cardinality(up.putOk \cup up.putFailed)

(* C33: termination. An upload whose handler has entered its loop makes at most
   one pass per chunk of its stream and then ends with a response; a download
   that found its file makes at most one fetch per listed chunk and then
   ends. *)
C33_Termination ==
    /\ [](\A u \in UploadReqs :
            Iterations(uploads[u]) <= Ceil(Len(uploads[u].stream), ChunkSize))
    /\ [](\A d \in DownloadReqs : Len(downloads[d].gets) <= Len(downloads[d].chunks))
    /\ \A u \in UploadReqs :
          (uploads[u].pc \in {"loop", "record"})
             ~> (uploads[u].pc = "done" /\ uploads[u].resp \in {200, 500})
    /\ \A d \in DownloadReqs :
          (downloads[d].pc \in {"list", "stream"}) ~> (downloads[d].pc = "done")

(* C33 witness: an upload of a stream of two chunks has answered after two
   passes, and a download has ended after fetching both of its two chunks *)
C33_Witness ==
    /\ \E u \in UploadReqs :
          /\ uploads[u].pc = "done" /\ uploads[u].resp = 200
          /\ Iterations(uploads[u]) = 2
    /\ \E d \in DownloadReqs :
          /\ downloads[d].pc = "done"
          /\ Len(downloads[d].chunks) = 2 /\ Len(downloads[d].gets) = 2

(* C34: reads are read-only. No step of a GET /download, /stream, /info or
   /status request, whatever its outcome, changes a file row, a chunk row or a
   stored object. *)
C34_ReadsAreReadOnly ==
    [][downloads' # downloads =>
          /\ files' = files
          /\ chunkRows' = chunkRows
          /\ objects' = objects]_vars

(* C34 witness: over a ledger with a completed file and its stored objects, one
   download has aborted midway (fetch failure after the first chunk) and
   another read request got 200 for an info or status query, or 404, 500,
   501 or 503 *)
C34_Witness ==
    /\ \E f \in files : f.status = StatusCompleted
    /\ objects # {} /\ chunkRows # {}
    /\ downloads["d1"].pc = "done" /\ downloads["d1"].failed
    /\ Len(downloads["d1"].gets) = 2
    /\ downloads["d2"].pc = "done" /\ downloads["d2"].gets = <<>>
    /\ downloads["d2"].status \in {200, 404, 500, 501, 503}

=============================================================================
